---- MODULE Spec2Model ----
(***************************************************************************)
(* Model of tools/rdm/ExpectedResults.py: the expected-result classes of   *)
(* the RDM responder tests.  An expectation object is constructed by a     *)
(* test, then its Matches method is applied to the outcome of one RDM      *)
(* transaction (status, command_class, pid_value, fields).                 *)
(*                                                                         *)
(* Python objects that are passed by reference (the lists and dicts given  *)
(* as field_names / field_values, and the default-argument containers that *)
(* Python creates once per function definition) live in `heap`; an         *)
(* expectation stores their addresses.  The code is Python 2 (iteritems).  *)
(***************************************************************************)
EXTENDS Integers, Sequences, FiniteSets, TLC

VARIABLES
  heap,   \* address -> contents of a list or dict object
  exp,    \* the expectation the test holds, or NoExp before any construction
  last    \* record of the most recent Matches call on exp, or NoCall

vars == <<heap, exp, last>>

\* ------------------------------------------------------------------ bounds

\* longest sequence-shaped fields value the response decoder hands over
MaxRows == 2

\* ------------------------------------------------- collaborators' constants

None == "None"

\* ola.PidStore command classes
RDM_GET == "RDM_GET"
RDM_SET == "RDM_SET"

\* ola.OlaClient response codes
RDM_COMPLETED_OK == "RDM_COMPLETED_OK"
RDM_WAS_BROADCAST == "RDM_WAS_BROADCAST"
RDM_FAILED_TO_SEND == "RDM_FAILED_TO_SEND"

\* ola.OlaClient response types
RDM_ACK == "RDM_ACK"
RDM_ACK_TIMER == "RDM_ACK_TIMER"
RDM_NACK_REASON == "RDM_NACK_REASON"

\* pid_store.GetName(name): the registry entry of a parameter, read-only
PidStore_GetName(name) ==
  CASE name = "QUEUED_MESSAGE" -> [name |-> "QUEUED_MESSAGE", value |-> 32]

\* ------------------------------------------------------------ input domains

CommandClasses == {RDM_GET, RDM_SET}
ResponseCodes == {RDM_COMPLETED_OK, RDM_WAS_BROADCAST, RDM_FAILED_TO_SEND}
ResponseTypes == {RDM_ACK, RDM_ACK_TIMER, RDM_NACK_REASON}
NackReasons == {"NR_UNKNOWN_PID", "NR_FORMAT_ERROR"}

\* DEVICE_INFO (0x0060) and QUEUED_MESSAGE (0x0020)
Pids == {96, PidStore_GetName("QUEUED_MESSAGE").value}

\* an RDMRequestStatus: the NACK reason is set only for a NACK response
Statuses ==
  { s \in [response_code : ResponseCodes,
           response_type : ResponseTypes,
           nack_reason : NackReasons \cup {None}] :
      (s.response_type = RDM_NACK_REASON) <=> (s.nack_reason # None) }

FieldNames == {"a", "b"}
FieldValuesOf(name) == IF name = "a" THEN {5, 6} ELSE {2}

\* the decoded dicts: every partial mapping of field name to value
Mappings ==
  UNION { { m \in [S -> {2, 5, 6}] : \A n \in S : m[n] \in FieldValuesOf(n) }
          : S \in SUBSET FieldNames }

SeqsUpTo(S, n) == UNION { [1..k -> S] : k \in 0..n }

\* fields is a dict, or a list of dicts
FieldsArgs ==
  { [type |-> "dict", val |-> m] : m \in Mappings }
    \cup { [type |-> "list", val |-> l] : l \in SeqsUpTo(Mappings, MaxRows) }

\* the (action, warning, advisory) triples a test passes
Diagnostics ==
  { [action |-> None, warning |-> None, advisory |-> None],
    [action |-> "action", warning |-> "warning", advisory |-> "advisory"] }

\* field_names / field_values containers a test passes explicitly
NamesArgs == { <<"a">>, <<"a", "b">> }
ValuesArgs == { [a |-> 5], [b |-> 2] }

\* ------------------------------------------------------------------- heap

\* the default-argument containers, created once per def statement
DefaultNames(cls) == <<cls, "field_names", "default">>
DefaultValues(cls) == <<cls, "field_values", "default">>
\* the containers the calling test allocated for the expectation it holds
CallerNames == <<"caller", "field_names", "arg">>
CallerValues == <<"caller", "field_values", "arg">>

AckClasses == {"AckResult", "AckGetResult", "AckSetResult"}

Addresses ==
  { DefaultNames(c) : c \in AckClasses } \cup { DefaultValues(c) : c \in AckClasses }
    \cup { CallerNames, CallerValues }

EmptyList == << >>
EmptyDict == << >>

NoExp == [cls |-> "NoExp"]
NoCall == [called |-> FALSE]

\* --------------------------------------------------------- Python helpers

\* obj.name = value
SetAttr(obj, name, value) == (name :> value) @@ obj

\* the elements of a list
Elements(list) == { list[k] : k \in 1..Len(list) }

\* isinstance(fields, list)
IsList(fields) == fields.type = "list"

\* str.__eq__(dict) is NotImplemented on both sides: == is False
StrEqDict(field, item) == FALSE

\* `field in fields`: key membership for a dict, element equality for a list
Contains(fields, field) ==
  IF IsList(fields)
    THEN \E i \in 1..Len(fields.val) : StrEqDict(field, fields.val[i])
    ELSE field \in DOMAIN fields.val

\* outcome of a method call: a returned value, or a raised exception
Returned(value, trace) == [exc |-> None, ret |-> value, trace |-> trace]
Raised(exception, trace) == [exc |-> exception, ret |-> FALSE, trace |-> trace]

\* ------------------------------------------------------------ constructors

\* BaseExpectedResult.__init__
BaseExpectedResult___init__(self, action, warning, advisory) ==
  SetAttr(SetAttr(SetAttr(self, "_action", action),
                  "_warning_messae", warning),
          "_advisory_message", advisory)

\* NackResult.__init__
NackResult___init__(self, command_class, pid_id, nack_reason, action, warning, advisory) ==
  LET base == BaseExpectedResult___init__(self, action, warning, advisory)
  IN SetAttr(SetAttr(SetAttr(base, "_command_class", command_class),
                     "_pid_id", pid_id),
             "_nack_reason", nack_reason)

\* NackGetResult.__init__
NackGetResult___init__(self, pid_id, nack_reason, action, warning, advisory) ==
  NackResult___init__(self, RDM_GET, pid_id, nack_reason,
                      action, warning, advisory)

\* NackSetResult.__init__ copied from NackGetResult with RDM_GET left in
NackSetResult___init__PassesGet(self, pid_id, nack_reason, action, warning, advisory) ==
  NackResult___init__(self, RDM_GET, pid_id, nack_reason,
                      action, warning, advisory)

\* NackSetResult.__init__
NackSetResult___init__(self, pid_id, nack_reason, action, warning, advisory) ==
  NackResult___init__(self, RDM_SET, pid_id, nack_reason,
                      action, warning, advisory)

\* AckResult.__init__ that also appends the names of field_values to the
\* field_names list it was given: a store through a (possibly default) argument
AckResult___init__ExtendsNames(h, self, command_class, pid_id, field_names, field_values, action, warning, advisory) ==
  LET base == BaseExpectedResult___init__(self, action, warning, advisory)
      more == DOMAIN h[field_values] \ Elements(h[field_names])
      RECURSIVE Listed(_)
      Listed(S) == IF S = {} THEN << >>
                   ELSE LET x == CHOOSE y \in S : TRUE
                        IN <<x>> \o Listed(S \ {x})
  IN [self |-> SetAttr(SetAttr(SetAttr(SetAttr(base,
                         "_command_class", command_class),
                         "_pid_id", pid_id),
                         "_field_names", field_names),
                         "_field_values", field_values),
      heap |-> [h EXCEPT ![field_names] = @ \o Listed(more)]]

\* AckResult.__init__: field_names and field_values are addresses; the
\* object keeps the references it is given and stores nothing through them
AckResult___init__(h, self, command_class, pid_id, field_names, field_values, action, warning, advisory) ==
  LET base == BaseExpectedResult___init__(self, action, warning, advisory)
  IN [self |-> SetAttr(SetAttr(SetAttr(SetAttr(base,
                         "_command_class", command_class),
                         "_pid_id", pid_id),
                         "_field_names", field_names),
                         "_field_values", field_values),
      heap |-> h]

\* AckGetResult.__init__
AckGetResult___init__(h, self, pid_id, field_names, field_values, action, warning, advisory) ==
  AckResult___init__(h, self, RDM_GET, pid_id, field_names, field_values,
                     action, warning, advisory)

\* AckSetResult.__init__
AckSetResult___init__(h, self, pid_id, field_names, field_values, action, warning, advisory) ==
  AckResult___init__(h, self, RDM_SET, pid_id, field_names, field_values,
                     action, warning, advisory)

\* ----------------------------------------------------------------- Matches

\* BaseExpectedResult.Matches
BaseExpectedResult_Matches(h, self, status, command_class, pid_value, fields) ==
  Raised("TypeError", <<"BaseExpectedResult.Matches">>)

\* BroadcastResult.Matches comparing with the wrong response code
BroadcastResult_MatchesCompleted(h, self, status, command_class, pid_value, fields) ==
  Returned(RDM_COMPLETED_OK = status.response_code,
           <<"BroadcastResult.Matches">>)

\* BroadcastResult.Matches
BroadcastResult_Matches(h, self, status, command_class, pid_value, fields) ==
  Returned(RDM_WAS_BROADCAST = status.response_code,
           <<"BroadcastResult.Matches">>)

\* SuccessfulResult.Matches that calls the method it overrides first
SuccessfulResult_MatchesViaSuper(h, self, status, command_class, pid_value, fields) ==
  LET base == BaseExpectedResult_Matches(h, self, status, command_class,
                                         pid_value, fields)
      trace == <<"SuccessfulResult.Matches">> \o base.trace
  IN IF base.exc # None THEN Raised(base.exc, trace)
     ELSE Returned(status.response_code = RDM_COMPLETED_OK, trace)

\* SuccessfulResult.Matches
SuccessfulResult_Matches(h, self, status, command_class, pid_value, fields) ==
  Returned(status.response_code = RDM_COMPLETED_OK,
           <<"SuccessfulResult.Matches">>)

\* QueuedMessageResult.Matches that accepts an ACK only
QueuedMessageResult_MatchesAckOnly(h, self, status, command_class, pid_value, fields) ==
  LET ok == SuccessfulResult_Matches(h, self, status, command_class,
                                     pid_value, fields)
      trace == <<"QueuedMessageResult.Matches">> \o ok.trace
      queued_message_pid == PidStore_GetName("QUEUED_MESSAGE")
  IN IF ok.exc # None THEN Raised(ok.exc, trace)
     ELSE IF ~ok.ret THEN Returned(FALSE, trace)
     ELSE Returned(status.response_type = RDM_ACK /\
                   pid_value # queued_message_pid.value,
                   trace)

\* QueuedMessageResult.Matches
QueuedMessageResult_Matches(h, self, status, command_class, pid_value, fields) ==
  LET ok == SuccessfulResult_Matches(h, self, status, command_class,
                                     pid_value, fields)
      trace == <<"QueuedMessageResult.Matches">> \o ok.trace
      queued_message_pid == PidStore_GetName("QUEUED_MESSAGE")
  IN IF ok.exc # None THEN Raised(ok.exc, trace)
     ELSE IF ~ok.ret THEN Returned(FALSE, trace)
     ELSE Returned((status.response_type = RDM_NACK_REASON \/
                    status.response_type = RDM_ACK) /\
                   pid_value # queued_message_pid.value,
                   trace)

\* NackResult.Matches
NackResult_Matches(h, self, status, command_class, pid_value, fields) ==
  LET ok == SuccessfulResult_Matches(h, self, status, command_class,
                                     pid_value, fields)
      trace == <<"NackResult.Matches">> \o ok.trace
  IN IF ok.exc # None THEN Raised(ok.exc, trace)
     ELSE Returned(ok.ret /\
                   status.response_type = RDM_NACK_REASON /\
                   command_class = self._command_class /\
                   self._pid_id = pid_value /\
                   self._nack_reason = status.nack_reason,
                   trace)

\* the presence loops looking at the first item of a list only
FieldNamesPresentInFirst(field_names, fields) ==
  IF IsList(fields)
    THEN \A i \in 1..Len(fields.val) :
           i = 1 => \A k \in 1..Len(field_names) :
                      field_names[k] \in DOMAIN fields.val[i]
    ELSE \A k \in 1..Len(field_names) :
           field_names[k] \in DOMAIN fields.val

\* the presence loops of AckResult.Matches: every name of field_names is a
\* key of every item of a list, or of the dict
FieldNamesPresent(field_names, fields) ==
  IF IsList(fields)
    THEN \A i \in 1..Len(fields.val) :
           \A k \in 1..Len(field_names) :
             field_names[k] \in DOMAIN fields.val[i]
    ELSE \A k \in 1..Len(field_names) :
           field_names[k] \in DOMAIN fields.val

\* the value loop comparing only the fields that are there
FieldValuesEqualWherePresent(field_values, fields) ==
  \A field \in DOMAIN field_values :
    IF ~Contains(fields, field) THEN TRUE
    ELSE field_values[field] = fields.val[field]

\* the value loop applied to each item of a list
FieldValuesEqualPerRow(field_values, fields) ==
  \A field \in DOMAIN field_values :
    IF IsList(fields)
      THEN \A i \in 1..Len(fields.val) :
             /\ field \in DOMAIN fields.val[i]
             /\ field_values[field] = fields.val[i][field]
      ELSE /\ field \in DOMAIN fields.val
           /\ field_values[field] = fields.val[field]

\* the value loop of AckResult.Matches, over fields as it was passed
FieldValuesEqual(field_values, fields) ==
  \A field \in DOMAIN field_values :
    IF ~Contains(fields, field) THEN FALSE
    ELSE field_values[field] = fields.val[field]

\* AckResult.Matches without the `not ok` test
AckResult_MatchesIgnoresOk(h, self, status, command_class, pid_value, fields) ==
  LET ok == SuccessfulResult_Matches(h, self, status, command_class,
                                     pid_value, fields)
      trace == <<"AckResult.Matches">> \o ok.trace
  IN IF ok.exc # None THEN Raised(ok.exc, trace)
     ELSE IF status.response_type # RDM_ACK \/
             command_class # self._command_class \/
             self._pid_id # pid_value
       THEN Returned(FALSE, trace)
     ELSE IF ~FieldNamesPresent(h[self._field_names], fields)
       THEN Returned(FALSE, trace)
     ELSE Returned(FieldValuesEqual(h[self._field_values], fields), trace)

\* AckResult.Matches
AckResult_Matches(h, self, status, command_class, pid_value, fields) ==
  LET ok == SuccessfulResult_Matches(h, self, status, command_class,
                                     pid_value, fields)
      trace == <<"AckResult.Matches">> \o ok.trace
  IN IF ok.exc # None THEN Raised(ok.exc, trace)
     ELSE IF ~ok.ret \/
             status.response_type # RDM_ACK \/
             command_class # self._command_class \/
             self._pid_id # pid_value
       THEN Returned(FALSE, trace)
     ELSE IF ~FieldNamesPresent(h[self._field_names], fields)
       THEN Returned(FALSE, trace)
     ELSE Returned(FieldValuesEqual(h[self._field_values], fields), trace)

\* the class whose Matches a call on an instance of cls resolves to
MatchesOwner(cls) ==
  CASE cls \in {"NackResult", "NackGetResult", "NackSetResult"} -> "NackResult"
    [] cls \in {"AckResult", "AckGetResult", "AckSetResult"} -> "AckResult"
    [] OTHER -> cls

\* self.Matches(status, command_class, pid_value, fields)
Invoke(h, self, status, command_class, pid_value, fields) ==
  LET owner == MatchesOwner(self.cls)
  IN CASE owner = "BaseExpectedResult" ->
            BaseExpectedResult_Matches(h, self, status, command_class, pid_value, fields)
       [] owner = "BroadcastResult" ->
            BroadcastResult_Matches(h, self, status, command_class, pid_value, fields)
       [] owner = "SuccessfulResult" ->
            SuccessfulResult_Matches(h, self, status, command_class, pid_value, fields)
       [] owner = "QueuedMessageResult" ->
            QueuedMessageResult_Matches(h, self, status, command_class, pid_value, fields)
       [] owner = "NackResult" ->
            NackResult_Matches(h, self, status, command_class, pid_value, fields)
       [] owner = "AckResult" ->
            AckResult_Matches(h, self, status, command_class, pid_value, fields)

\* ----------------------------------------------------------------- actions

Init ==
  /\ heap = [a \in Addresses |-> << >>]
  /\ exp = NoExp
  /\ last = NoCall

\* the test allocates the containers it passes (or none) for a new
\* expectation; those of the expectation it drops are gone
CallerHeap(names, values) ==
  [heap EXCEPT ![CallerNames] = IF names.given THEN names.val ELSE EmptyList,
               ![CallerValues] = IF values.given THEN values.val ELSE EmptyDict]

Omitted == [given |-> FALSE]
Given(S) == { [given |-> TRUE, val |-> v] : v \in S }

New(cls) == [cls |-> cls]

\* BaseExpectedResult(action, warning, advisory), and the three classes
\* that inherit its constructor unchanged
ConstructPlain(cls) ==
  /\ ~last.called
  /\ \E d \in Diagnostics :
    /\ exp' = BaseExpectedResult___init__(New(cls), d.action, d.warning, d.advisory)
    /\ heap' = CallerHeap(Omitted, Omitted)
    /\ last' = NoCall

ConstructBase == ConstructPlain("BaseExpectedResult")
ConstructBroadcast == ConstructPlain("BroadcastResult")
ConstructSuccessful == ConstructPlain("SuccessfulResult")
ConstructQueuedMessage == ConstructPlain("QueuedMessageResult")

ConstructNack ==
  /\ ~last.called
  /\ \E cc \in CommandClasses, pid \in Pids, nr \in NackReasons, d \in Diagnostics :
    /\ exp' = NackResult___init__(New("NackResult"), cc, pid, nr,
                                  d.action, d.warning, d.advisory)
    /\ heap' = CallerHeap(Omitted, Omitted)
    /\ last' = NoCall

ConstructNackGet ==
  /\ ~last.called
  /\ \E pid \in Pids, nr \in NackReasons, d \in Diagnostics :
    /\ exp' = NackGetResult___init__(New("NackGetResult"), pid, nr,
                                     d.action, d.warning, d.advisory)
    /\ heap' = CallerHeap(Omitted, Omitted)
    /\ last' = NoCall

ConstructNackSet ==
  /\ ~last.called
  /\ \E pid \in Pids, nr \in NackReasons, d \in Diagnostics :
    /\ exp' = NackSetResult___init__(New("NackSetResult"), pid, nr,
                                     d.action, d.warning, d.advisory)
    /\ heap' = CallerHeap(Omitted, Omitted)
    /\ last' = NoCall

\* the address a field_names / field_values parameter of cls.__init__ binds to
NamesParam(cls, names) == IF names.given THEN CallerNames ELSE DefaultNames(cls)
ValuesParam(cls, values) == IF values.given THEN CallerValues ELSE DefaultValues(cls)

ConstructAck ==
  /\ ~last.called
  /\ \E cc \in CommandClasses, pid \in Pids, d \in Diagnostics,
     names \in {Omitted} \cup Given(NamesArgs),
     values \in {Omitted} \cup Given(ValuesArgs) :
    LET r == AckResult___init__(CallerHeap(names, values), New("AckResult"),
                                cc, pid,
                                NamesParam("AckResult", names),
                                ValuesParam("AckResult", values),
                                d.action, d.warning, d.advisory)
    IN /\ exp' = r.self
       /\ heap' = r.heap
       /\ last' = NoCall

ConstructAckGet ==
  /\ ~last.called
  /\ \E pid \in Pids, d \in Diagnostics,
     names \in {Omitted} \cup Given(NamesArgs),
     values \in {Omitted} \cup Given(ValuesArgs) :
    LET r == AckGetResult___init__(CallerHeap(names, values), New("AckGetResult"),
                                   pid,
                                   NamesParam("AckGetResult", names),
                                   ValuesParam("AckGetResult", values),
                                   d.action, d.warning, d.advisory)
    IN /\ exp' = r.self
       /\ heap' = r.heap
       /\ last' = NoCall

ConstructAckSet ==
  /\ ~last.called
  /\ \E pid \in Pids, d \in Diagnostics,
     names \in {Omitted} \cup Given(NamesArgs),
     values \in {Omitted} \cup Given(ValuesArgs) :
    LET r == AckSetResult___init__(CallerHeap(names, values), New("AckSetResult"),
                                   pid,
                                   NamesParam("AckSetResult", names),
                                   ValuesParam("AckSetResult", values),
                                   d.action, d.warning, d.advisory)
    IN /\ exp' = r.self
       /\ heap' = r.heap
       /\ last' = NoCall

\* a Matches that takes the names off the expectation's list as it checks them
MatchesConsumingNames(status, command_class, pid_value, fields) ==
  /\ exp.cls # NoExp.cls
  /\ LET r == Invoke(heap, exp, status, command_class, pid_value, fields)
     IN last' = [called |-> TRUE,
                 self |-> exp,
                 heap |-> heap,
                 status |-> status,
                 command_class |-> command_class,
                 pid_value |-> pid_value,
                 fields |-> fields,
                 status_after |-> status,
                 fields_after |-> fields,
                 exc |-> r.exc,
                 ret |-> r.ret,
                 trace |-> r.trace]
  /\ heap' = IF exp.cls \in AckClasses
               THEN [heap EXCEPT ![exp._field_names] = EmptyList]
               ELSE heap
  /\ UNCHANGED exp

\* exp.Matches(status, command_class, pid_value, fields): the call reads its
\* arguments, the expectation and the containers, and stores nothing
Matches(status, command_class, pid_value, fields) ==
  /\ exp.cls # NoExp.cls
  /\ LET r == Invoke(heap, exp, status, command_class, pid_value, fields)
     IN last' = [called |-> TRUE,
                 self |-> exp,
                 heap |-> heap,
                 status |-> status,
                 command_class |-> command_class,
                 pid_value |-> pid_value,
                 fields |-> fields,
                 status_after |-> status,
                 fields_after |-> fields,
                 exc |-> r.exc,
                 ret |-> r.ret,
                 trace |-> r.trace]
  /\ UNCHANGED <<heap, exp>>

\* the test passes the outcome of a transaction to the expectation
CallMatches ==
  /\ ~last.called
  /\ \E status \in Statuses, command_class \in CommandClasses,
     pid_value \in Pids, fields \in FieldsArgs :
    /\ Matches(status, command_class, pid_value, fields)

\* the test passes the same objects to the expectation once more
RepeatMatches ==
  /\ last.called
  /\ Matches(last.status_after, last.command_class, last.pid_value,
             last.fields_after)

\* the test is done with the result; the expectation and the containers stay
Forget ==
  /\ last.called
  /\ last' = NoCall
  /\ UNCHANGED <<heap, exp>>

Next ==
  \/ ConstructBase
  \/ ConstructBroadcast
  \/ ConstructSuccessful
  \/ ConstructQueuedMessage
  \/ ConstructNack
  \/ ConstructNackGet
  \/ ConstructNackSet
  \/ ConstructAck
  \/ ConstructAckGet
  \/ ConstructAckSet
  \/ CallMatches
  \/ RepeatMatches
  \/ Forget

Spec == Init /\ [][Next]_vars

\* ------------------------------------------------------------------ claims

SuccessfulFamily ==
  {"SuccessfulResult", "QueuedMessageResult",
   "NackResult", "NackGetResult", "NackSetResult",
   "AckResult", "AckGetResult", "AckSetResult"}
NackClasses == {"NackResult", "NackGetResult", "NackSetResult"}

\* the call `last` records was made on an instance of one of the classes
CalledOn(classes) == last.called /\ last.self.cls \in classes

\* the call returned value (and raised nothing)
Gave(value) == last.exc = None /\ last.ret = value

\* conditions of the recorded call that the ACK / NACK checks start with
CompletedOk == last.status.response_code = RDM_COMPLETED_OK
SameCommandAndPid ==
  /\ last.command_class = last.self._command_class
  /\ last.pid_value = last.self._pid_id
AckHeader ==
  CompletedOk /\ last.status.response_type = RDM_ACK /\ SameCommandAndPid

\* what a plain SuccessfulResult / BroadcastResult gives for the recorded call
AsSuccessful ==
  SuccessfulResult_Matches(last.heap, New("SuccessfulResult"), last.status,
                           last.command_class, last.pid_value, last.fields)
AsBroadcast ==
  BroadcastResult_Matches(last.heap, New("BroadcastResult"), last.status,
                          last.command_class, last.pid_value, last.fields)

\* C1: when the response code is not RDM_COMPLETED_OK, Matches of
\* SuccessfulResult and of every class derived from it returns False, whatever
\* the other arguments and the configuration; so whatever a derived
\* expectation matches, SuccessfulResult matches too.
C1_NotCompletedNeverMatches ==
  CalledOn(SuccessfulFamily) =>
    /\ ~CompletedOk => Gave(FALSE)
    /\ Gave(TRUE) => AsSuccessful.ret

\* C1 witness: an AckGetResult call where only the response code is wrong
C1_Witness ==
  /\ CalledOn({"AckGetResult"})
  /\ last.status.response_code = RDM_WAS_BROADCAST
  /\ last.status.response_type = RDM_ACK
  /\ SameCommandAndPid
  /\ last.heap[last.self._field_names] = <<"a", "b">>
  /\ last.fields = [type |-> "dict", val |-> [a |-> 5, b |-> 2]]
  /\ Gave(FALSE)

\* C2: NackResult.Matches returns True exactly when the response completed
\* OK, is a NACK, and command class, PID and NACK reason equal the configured
\* ones; NackGetResult is configured with GET and NackSetResult with SET, so
\* neither matches a transaction of the other command class.
C2_NackMatchesIff ==
  CalledOn(NackClasses) =>
    /\ last.exc = None
    /\ last.ret <=> /\ CompletedOk
                    /\ last.status.response_type = RDM_NACK_REASON
                    /\ SameCommandAndPid
                    /\ last.status.nack_reason = last.self._nack_reason
    /\ last.self.cls = "NackGetResult" =>
         /\ last.self._command_class = RDM_GET
         /\ last.command_class = RDM_SET => ~last.ret
    /\ last.self.cls = "NackSetResult" =>
         /\ last.self._command_class = RDM_SET
         /\ last.command_class = RDM_GET => ~last.ret

\* C2 witness: a NackSetResult matching a NACK of a SET
C2_Witness ==
  /\ CalledOn({"NackSetResult"})
  /\ last.command_class = RDM_SET
  /\ last.status.nack_reason = "NR_FORMAT_ERROR"
  /\ Gave(TRUE)

\* C3: with the header conditions met and no required values, AckResult
\* matches exactly when every required name is a key of the dict, or of
\* every dict of the list.
C3_AckPresence ==
  (CalledOn(AckClasses) /\ AckHeader
     /\ DOMAIN last.heap[last.self._field_values] = {}) =>
    LET required == Elements(last.heap[last.self._field_names])
    IN /\ last.exc = None
       /\ last.ret <=>
            IF last.fields.type = "list"
              THEN \A row \in Elements(last.fields.val) : required \subseteq DOMAIN row
              ELSE required \subseteq DOMAIN last.fields.val

\* C3 witness: a list whose first row is complete and whose second lacks "b"
C3_Witness ==
  /\ CalledOn(AckClasses) /\ AckHeader
  /\ DOMAIN last.heap[last.self._field_values] = {}
  /\ last.heap[last.self._field_names] = <<"a", "b">>
  /\ last.fields = [type |-> "list", val |-> <<[a |-> 5, b |-> 2], [a |-> 5]>>]
  /\ Gave(FALSE)

\* C4: with the header conditions met and a dict for fields, AckResult
\* matches exactly when every required name is a key and every required
\* (name, value) pair is in the dict, also for a name that is not among the
\* required names.
C4_AckValues ==
  (CalledOn(AckClasses) /\ AckHeader /\ last.fields.type = "dict") =>
    LET required == Elements(last.heap[last.self._field_names])
        expected == last.heap[last.self._field_values]
        given == last.fields.val
    IN /\ last.exc = None
       /\ last.ret <=>
            /\ required \subseteq DOMAIN given
            /\ \A name \in DOMAIN expected :
                 name \in DOMAIN given /\ given[name] = expected[name]

\* C4 witness: "b" is required by value only, and the dict lacks it
C4_Witness ==
  /\ CalledOn(AckClasses) /\ AckHeader
  /\ last.heap[last.self._field_names] = <<"a">>
  /\ last.heap[last.self._field_values] = [b |-> 2]
  /\ last.fields = [type |-> "dict", val |-> [a |-> 5]]
  /\ Gave(FALSE)

\* C5: QueuedMessageResult.Matches returns True exactly when the response
\* completed OK, is an ACK or a NACK, and its PID is not QUEUED_MESSAGE;
\* command class and fields play no part.
C5_QueuedMessageIff ==
  CalledOn({"QueuedMessageResult"}) =>
    /\ last.exc = None
    /\ last.ret <=>
         /\ CompletedOk
         /\ last.status.response_type \in {RDM_ACK, RDM_NACK_REASON}
         /\ last.pid_value # PidStore_GetName("QUEUED_MESSAGE").value

\* C5 witness: a NACK for another PID is matched
C5_Witness ==
  /\ CalledOn({"QueuedMessageResult"})
  /\ last.status.response_type = RDM_NACK_REASON
  /\ last.pid_value # PidStore_GetName("QUEUED_MESSAGE").value
  /\ Gave(TRUE)

\* C6: BroadcastResult.Matches returns True exactly when the response code
\* is RDM_WAS_BROADCAST, and no outcome is matched both by a BroadcastResult
\* and by SuccessfulResult or a class derived from it.
C6_BroadcastIff ==
  /\ CalledOn({"BroadcastResult"}) =>
       /\ last.exc = None
       /\ last.ret <=> last.status.response_code = RDM_WAS_BROADCAST
       /\ last.ret => ~AsSuccessful.ret
  /\ (CalledOn(SuccessfulFamily) /\ Gave(TRUE)) => ~AsBroadcast.ret

\* C6 witness: a broadcast is matched although the response type is a NACK
C6_Witness ==
  /\ CalledOn({"BroadcastResult"})
  /\ last.status.response_type = RDM_NACK_REASON
  /\ last.fields.type = "list"
  /\ Gave(TRUE)

C8_BaseRaises ==
  /\ CalledOn({"BaseExpectedResult"}) => last.exc = "TypeError"
  /\ (last.called /\ last.self.cls # "BaseExpectedResult") =>
       /\ last.exc = None
       /\ "BaseExpectedResult.Matches" \notin Elements(last.trace)

\* C8 witness: the base method was called and raised
C8_Witness ==
  /\ CalledOn({"BaseExpectedResult"})
  /\ last.exc = "TypeError"
  /\ last.trace = <<"BaseExpectedResult.Matches">>

\* C9: an ACK expectation constructed without field_names and field_values
\* matches exactly when the header conditions hold, for a dict and for a
\* list, whatever was constructed or called before.
C9_DefaultsRequireNothing ==
  (CalledOn(AckClasses)
     /\ last.self._field_names = DefaultNames(last.self.cls)
     /\ last.self._field_values = DefaultValues(last.self.cls)) =>
    /\ last.exc = None
    /\ last.ret <=> AckHeader

\* C9 witness: a default AckSetResult matching a list with an empty row
C9_Witness ==
  /\ CalledOn({"AckSetResult"})
  /\ last.self._field_names = DefaultNames("AckSetResult")
  /\ last.self._field_values = DefaultValues("AckSetResult")
  /\ last.fields = [type |-> "list", val |-> << << >>, [a |-> 6] >>]
  /\ Gave(TRUE)

\* C10: an AckResult with a required field value returns False for every
\* list, also when each row holds the field with the expected value.
C10_ValuesNeverMatchList ==
  (CalledOn(AckClasses)
     /\ DOMAIN last.heap[last.self._field_values] # {}
     /\ last.fields.type = "list") =>
    Gave(FALSE)

\* C10 witness: both rows hold a = 5, which is the value required
C10_Witness ==
  /\ CalledOn(AckClasses) /\ AckHeader
  /\ last.heap[last.self._field_names] = <<"a">>
  /\ last.heap[last.self._field_values] = [a |-> 5]
  /\ last.fields = [type |-> "list", val |-> <<[a |-> 5], [a |-> 5, b |-> 2]>>]
  /\ Gave(FALSE)

====
